---- MODULE Spec2Model ----
(***************************************************************************)
(* Touch gesture classifier of shared/js/touch-optimizer.js (TouchHandler). *)
(*                                                                         *)
(* The handlers run to completion on the browser's event loop, so each     *)
(* handler is one action.  The only asynchronous primitive is setTimeout:  *)
(* every call creates a timer with a fresh id, and the timer's callback is *)
(* a separate action that runs once the clock has reached its deadline.    *)
(*                                                                         *)
(* Numbers.  Coordinates and times are integers (pixels, milliseconds).    *)
(* Math.sqrt and the divisions of the code produce reals; a non-negative   *)
(* real whose square is rational is carried exactly as the reduced         *)
(* fraction of its square, [num, den] standing for sqrt(num/den); den = 0  *)
(* stands for the two IEEE results of a division by zero (Infinity, NaN).  *)
(* An angle returned by Math.atan2 is carried as the reduced direction of   *)
(* its vector; a difference of two angles is in whole degrees, and is only *)
(* taken of vectors that lie on one of the eight compass directions.       *)
(***************************************************************************)
EXTENDS Integers, Naturals, Sequences, FiniteSets, TLC

VARIABLES
    touchState,    \* TouchHandler.touchState
    gestureState,  \* TouchHandler.gestureState
    config,        \* TouchConfig
    timers,        \* the host's pending setTimeout timers: id -> deadline
    now,           \* the host's clock, Date.now()
    emitted,       \* the gesture events the last step dispatched, in order
    lastOp,        \* the last step taken
    moved,         \* a move was processed since the latest contact-start
    longPressed,   \* a longpress was emitted since the latest contact-start
    tapAt,         \* when the latest tap not yet followed by a doubletap was
                   \* emitted, NoTap if there is none
    touches,       \* event.touches of the contact-start or move the last
                   \* step processed, <<>> after any other step
    closed,        \* the latest session was closed by a contact-end or a
                   \* contact-cancel, and no contact-start or reset came since
    tapKind,       \* the type of the latest tap or doubletap emitted since
                   \* construction or the latest reset, "none" if there is none
    gameLoop,      \* GameLoop (game-utils.js): isRunning, loopId, lastTime,
                   \* accumulatedTime, speed
    frames,        \* the host's pending requestAnimationFrame callbacks:
                   \* id -> the time of the request
    errorCache,    \* ErrorLogger.errorCache (error-handler.js)
    logged         \* the number of ErrorLogger.log calls so far

vars == <<touchState, gestureState, config, timers, now,
          emitted, lastOp, moved, longPressed, tapAt, touches, closed,
          tapKind, gameLoop, frames, errorCache, logged>>

\* the state of TouchHandler and of its timers, without the clock, and the
\* state of the other two scripts
handlerVars == <<touchState, gestureState, config, timers, emitted, lastOp,
                 moved, longPressed, tapAt, touches, closed, tapKind>>
scriptVars == <<gameLoop, frames, errorCache, logged>>

(***************************************************************************)
(* Bounds of the exploration.                                              *)
(***************************************************************************)
MaxTime == 700
MaxTimers == 2
MaxFrames == 2
MaxLogs == 102

\* positions of touches[0] at a contact-start and at a move, offsets from
\* touches[0] to touches[1], the amounts by which the clock moves, and the
\* amounts by which it may have moved between two reads inside one handler
StartPoints == {<<0, 0>>}
Points == {<<0, 0>>, <<5, 0>>, <<40, 0>>}
SwipePoints == {<<0, 0>>, <<5, 0>>, <<20, 0>>, <<40, 0>>, <<-40, 5>>, <<5, 40>>,
                <<5, -40>>, <<40, 40>>, <<-40, -40>>}
Offsets == {<<0, 0>>, <<100, 0>>, <<0, 150>>}
ConfigPoints == {<<0, 0>>, <<5, 0>>, <<20, 0>>, <<40, 0>>}
ClockSteps == {100}
ClockLags == {0} \cup ClockSteps

(***************************************************************************)
(* Program constants.                                                      *)
(***************************************************************************)
TAP_MAX_DURATION == 300
SWIPE_MAX_DURATION == 500
DOUBLE_TAP_WINDOW == 300

DefaultConfig ==
    [SWIPE_THRESHOLD |-> 30, TAP_THRESHOLD |-> 10, LONG_PRESS_DURATION |-> 500,
     ENABLE_PINCH_ZOOM |-> TRUE, ENABLE_ROTATE |-> TRUE]

Null == 0
NoTap == -1

\* ErrorConfig.maxErrorCache
maxErrorCache == 100

\* the speeds handed to GameLoop.init and setSpeed, the value of
\* GameLoop.speed before init has set it, and the levels handed to log
LoopSpeeds == {100, 300}
Undefined == -1
LogLevels == {"ERROR"}

\* Object.assign(target, source): the properties of source, added to target
\* or replacing target's
ObjectAssign(target, source) ==
    [k \in DOMAIN target \cup DOMAIN source |->
        IF k \in DOMAIN source THEN source[k] ELSE target[k]]

\* the options objects handed to init and to updateConfig: none, a tap
\* threshold above the swipe threshold, a lower swipe threshold, and a
\* shorter long press with a shorter double-tap window (a property that
\* TouchConfig does not have, and that Object.assign adds to it)
NoOptions == [k \in {} |-> 0]
ConfigOptions ==
    {[TAP_THRESHOLD |-> 50],
     [SWIPE_THRESHOLD |-> 15],
     [LONG_PRESS_DURATION |-> 200, DOUBLE_TAP_WINDOW |-> 100]}

\* options that switch a two-contact feature off
FlagOptions == {[ENABLE_PINCH_ZOOM |-> FALSE], [ENABLE_ROTATE |-> FALSE]}

(***************************************************************************)
(* Arithmetic.                                                             *)
(***************************************************************************)
Abs(n) == IF n < 0 THEN -n ELSE n

RECURSIVE GCD(_, _)
GCD(a, b) == IF b = 0 THEN a ELSE GCD(b, a % b)

\* sqrt(n / d) for naturals n, d; d = 0 gives Infinity (n > 0) or NaN (n = 0)
SqrtRatio(n, d) ==
    IF d = 0 THEN [num |-> IF n = 0 THEN 0 ELSE 1, den |-> 0]
    ELSE IF n = 0 THEN [num |-> 0, den |-> 1]
    ELSE [num |-> n \div GCD(n, d), den |-> d \div GCD(n, d)]

IsFinite(r) == r.den > 0

\* the real number k (a natural) in that representation
Real(k) == SqrtRatio(k * k, 1)

\* Math.sqrt(dx * dx + dy * dy)
Hypot(dx, dy) == SqrtRatio(dx * dx + dy * dy, 1)

\* r / k for a real r and a natural k
DivNat(r, k) == SqrtRatio(r.num, r.den * k * k)

\* r / s for reals r, s
DivReal(r, s) == SqrtRatio(r.num * s.den, r.den * s.num)

\* r < k and r >= k for a finite real r and a natural k
LessThan(r, k) == r.num < k * k * r.den
AtLeast(r, k) == ~LessThan(r, k)

\* Math.atan2(dy, dx): the angle of the vector (dx, dy), carried exactly as
\* the reduced direction <<dy, dx>>; Math.atan2(0, 0) is 0, the angle of (1, 0)
Atan2(dy, dx) ==
    IF dy = 0 /\ dx = 0 THEN <<0, 1>>
    ELSE <<dy \div GCD(Abs(dy), Abs(dx)), dx \div GCD(Abs(dy), Abs(dx))>>

\* the angle a in degrees, for the eight compass directions
Degrees(a) ==
    CASE a = <<0, 1>> -> 0
      [] a = <<1, 1>> -> 45
      [] a = <<1, 0>> -> 90
      [] a = <<1, -1>> -> 135
      [] a = <<0, -1>> -> 180
      [] a = <<-1, -1>> -> -135
      [] a = <<-1, 0>> -> -90
      [] a = <<-1, 1>> -> -45

\* a - b for two angles, in degrees
AngleDiff(a, b) == Degrees(a) - Degrees(b)

(***************************************************************************)
(* Initial state: the object literals of TouchConfig and TouchHandler.     *)
(***************************************************************************)
InitTouchState ==
    [startX |-> 0, startY |-> 0, startTime |-> 0, currentX |-> 0,
     currentY |-> 0, isTouching |-> FALSE, touchCount |-> 0,
     lastTapTime |-> 0, longPressTimer |-> Null]

InitGestureState ==
    [scale |-> Real(1), rotation |-> 0, initialDistance |-> Real(0),
     initialAngle |-> Atan2(0, 0)]

InitGameLoop ==
    [isRunning |-> FALSE, loopId |-> Null, lastTime |-> 0,
     accumulatedTime |-> 0, speed |-> Undefined]

InitHandler ==
    /\ gameLoop = InitGameLoop
    /\ frames = <<>>
    /\ errorCache = <<>>
    /\ logged = 0
    /\ touchState = InitTouchState
    /\ gestureState = InitGestureState
    /\ timers = <<>>
    /\ now = 0
    /\ emitted = <<>>
    /\ lastOp = "init"
    /\ moved = FALSE
    /\ longPressed = FALSE
    /\ tapAt = NoTap
    /\ touches = <<>>
    /\ closed = FALSE
    /\ tapKind = "none"

\* init(element, options) with options that switch features off
InitFlags ==
    /\ InitHandler
    /\ \E options \in {NoOptions} \cup FlagOptions :
          config = ObjectAssign(DefaultConfig, options)

\* the handler as the script leaves it, before any call of init
Init == InitHandler /\ config = DefaultConfig

\* init(element, options): the options are merged into TouchConfig before
\* the listeners are added
InitConfig ==
    /\ InitHandler
    /\ \E options \in {NoOptions} \cup ConfigOptions :
          config = ObjectAssign(DefaultConfig, options)

(***************************************************************************)
(* dispatchGestureEvent: the gesture type and data handed to the document. *)
(***************************************************************************)
Gesture(gestureType, data) == [type |-> gestureType, data |-> data]

(***************************************************************************)
(* handleMultiTouchStart / handleMultiTouchMove: touch1 = p, touch2 = p+o. *)
(***************************************************************************)
HandleMultiTouchStart(gs, o) ==
    [gs EXCEPT !.initialDistance = Hypot(o[1], o[2]),
               !.initialAngle = Atan2(o[2], o[1]),
               !.scale = Real(1),
               !.rotation = 0]

\* as MultiTouchScale, without the test of the reference distance
MultiTouchScaleUnguarded(gs, o) ==
    DivReal(Hypot(o[1], o[2]), gs.initialDistance)

\* as MultiTouchScale, with the quotient upside down
MultiTouchScaleInverted(gs, o) ==
    IF gs.initialDistance.num > 0
    THEN DivReal(gs.initialDistance, Hypot(o[1], o[2]))
    ELSE gs.scale

MultiTouchScale(gs, o) ==
    IF gs.initialDistance.num > 0
    THEN DivReal(Hypot(o[1], o[2]), gs.initialDistance)
    ELSE gs.scale

\* as MultiTouchRotation, with the difference the other way round
MultiTouchRotationReversed(gs, cfg, o) ==
    IF cfg.ENABLE_ROTATE
    THEN AngleDiff(gs.initialAngle, Atan2(o[2], o[1]))
    ELSE gs.rotation

MultiTouchRotation(gs, cfg, o) ==
    IF cfg.ENABLE_ROTATE
    THEN AngleDiff(Atan2(o[2], o[1]), gs.initialAngle)
    ELSE gs.rotation

HandleMultiTouchMoveState(gs, cfg, o) ==
    [gs EXCEPT !.scale = MultiTouchScale(gs, o),
               !.rotation = MultiTouchRotation(gs, cfg, o)]

\* (touch1.clientX + touch2.clientX) / 2; the offsets are even
Center(p, o) == <<(p[1] + p[1] + o[1]) \div 2, (p[2] + p[2] + o[2]) \div 2>>

HandleMultiTouchMoveEvents(gs, cfg, p, o) ==
    <<Gesture("pinch", [scale |-> MultiTouchScale(gs, o),
                        centerX |-> Center(p, o)[1],
                        centerY |-> Center(p, o)[2]])>>
    \o (IF cfg.ENABLE_ROTATE
        THEN <<Gesture("rotate", [rotation |-> MultiTouchRotation(gs, cfg, o),
                                  centerX |-> Center(p, o)[1],
                                  centerY |-> Center(p, o)[2]])>>
        ELSE <<>>)

(***************************************************************************)
(* handleTouchStart: touches[0] = p, touches.length = n, touches[1] = p+o. *)
(***************************************************************************)
Touches(p, n, o) ==
    IF n = 2 THEN <<p, <<p[1] + o[1], p[2] + o[2]>>>> ELSE <<p>>

\* setTimeout returns an id no pending timer has; which one is immaterial
FreshTimerId ==
    CHOOSE i \in 1..(MaxTimers + 1) :
        i \notin DOMAIN timers /\ \A j \in 1..(i - 1) : j \in DOMAIN timers

\* as HandleTouchStart, with the current position left as it was
HandleTouchStartKeepsCurrent(p, n, o) ==
    /\ Cardinality(DOMAIN timers) < MaxTimers
    /\ touchState' = [touchState EXCEPT !.startX = p[1], !.startY = p[2],
                                        !.startTime = now,
                                        !.isTouching = TRUE,
                                        !.touchCount = n,
                                        !.longPressTimer = FreshTimerId]
    /\ timers' = timers @@ (FreshTimerId :> now + config.LONG_PRESS_DURATION)
    /\ gestureState' = IF n = 2 /\ config.ENABLE_PINCH_ZOOM
                       THEN HandleMultiTouchStart(gestureState, o)
                       ELSE gestureState
    /\ emitted' = <<>>
    /\ lastOp' = "start"
    /\ UNCHANGED scriptVars
    /\ moved' = FALSE
    /\ longPressed' = FALSE
    /\ touches' = Touches(p, n, o)
    /\ closed' = FALSE
    /\ UNCHANGED <<config, now, tapAt, tapKind>>

HandleTouchStart(p, n, o) ==
    /\ Cardinality(DOMAIN timers) < MaxTimers
    /\ touchState' = [touchState EXCEPT !.startX = p[1], !.startY = p[2],
                                        !.startTime = now,
                                        !.currentX = p[1], !.currentY = p[2],
                                        !.isTouching = TRUE,
                                        !.touchCount = n,
                                        !.longPressTimer = FreshTimerId]
    /\ timers' = timers @@ (FreshTimerId :> now + config.LONG_PRESS_DURATION)
    /\ gestureState' = IF n = 2 /\ config.ENABLE_PINCH_ZOOM
                       THEN HandleMultiTouchStart(gestureState, o)
                       ELSE gestureState
    /\ emitted' = <<>>
    /\ lastOp' = "start"
    /\ UNCHANGED scriptVars
    /\ moved' = FALSE
    /\ longPressed' = FALSE
    /\ touches' = Touches(p, n, o)
    /\ closed' = FALSE
    /\ UNCHANGED <<config, now, tapAt, tapKind>>

\* clearTimeout(id): the timer, if still pending, will not fire
ClearTimeout(ts, id) == [i \in DOMAIN ts \ {id} |-> ts[i]]

(***************************************************************************)
(* handleTouchMove                                                         *)
(***************************************************************************)
\* as HandleTouchMove, without the test of isTouching
HandleTouchMoveUnguarded(p, n, o) ==
    /\ lastOp' = "move"
    /\ UNCHANGED scriptVars
    /\ emitted' = IF n = 2 /\ config.ENABLE_PINCH_ZOOM
                  THEN HandleMultiTouchMoveEvents(gestureState, config, p, o)
                  ELSE <<>>
    /\ touches' = Touches(p, n, o)
    /\ touchState' = [touchState EXCEPT !.currentX = p[1],
                                        !.currentY = p[2],
                                        !.longPressTimer = Null]
    /\ timers' = IF touchState.longPressTimer # Null
                 THEN ClearTimeout(timers, touchState.longPressTimer)
                 ELSE timers
    /\ gestureState' = IF n = 2 /\ config.ENABLE_PINCH_ZOOM
                       THEN HandleMultiTouchMoveState(gestureState, config, o)
                       ELSE gestureState
    /\ moved' = TRUE
    /\ UNCHANGED <<config, now, longPressed, tapAt, closed, tapKind>>

HandleTouchMove(p, n, o) ==
    /\ lastOp' = "move"
    /\ UNCHANGED scriptVars
    /\ emitted' = IF touchState.isTouching /\ n = 2 /\ config.ENABLE_PINCH_ZOOM
                  THEN HandleMultiTouchMoveEvents(gestureState, config, p, o)
                  ELSE <<>>
    /\ IF ~touchState.isTouching
       THEN /\ touches' = <<>>
            /\ UNCHANGED <<touchState, gestureState, timers, moved>>
       ELSE /\ touches' = Touches(p, n, o)
            /\ touchState' = [touchState EXCEPT !.currentX = p[1],
                                                !.currentY = p[2],
                                                !.longPressTimer = Null]
            /\ timers' = IF touchState.longPressTimer # Null
                         THEN ClearTimeout(timers, touchState.longPressTimer)
                         ELSE timers
            /\ gestureState' = IF n = 2 /\ config.ENABLE_PINCH_ZOOM
                               THEN HandleMultiTouchMoveState(gestureState,
                                                              config, o)
                               ELSE gestureState
            /\ moved' = TRUE
    /\ UNCHANGED <<config, now, longPressed, tapAt, closed, tapKind>>

(***************************************************************************)
(* handleTap: currentTime is the value Date.now() returns inside handleTap *)
(***************************************************************************)
IsDoubleTap(ts, currentTime) == currentTime - ts.lastTapTime < DOUBLE_TAP_WINDOW

HandleTapEvent(ts, duration, currentTime) ==
    Gesture(IF IsDoubleTap(ts, currentTime) THEN "doubletap" ELSE "tap",
            [x |-> ts.currentX, y |-> ts.currentY, duration |-> duration])

HandleTapLastTapTime(ts, currentTime) ==
    IF IsDoubleTap(ts, currentTime) THEN 0 ELSE currentTime

(***************************************************************************)
(* handleSwipe: currentTime is the value Date.now() returns inside it      *)
(***************************************************************************)
\* as SwipeDirection, with a tie taken as horizontal
SwipeDirectionTieHorizontal(deltaX, deltaY) ==
    IF Abs(deltaX) >= Abs(deltaY)
    THEN (IF deltaX > 0 THEN "right" ELSE "left")
    ELSE (IF deltaY > 0 THEN "down" ELSE "up")

\* as SwipeDirection, with the displacements compared without Math.abs
SwipeDirectionNoAbs(deltaX, deltaY) ==
    IF deltaX > deltaY
    THEN (IF deltaX > 0 THEN "right" ELSE "left")
    ELSE (IF deltaY > 0 THEN "down" ELSE "up")

SwipeDirection(deltaX, deltaY) ==
    IF Abs(deltaX) > Abs(deltaY)
    THEN (IF deltaX > 0 THEN "right" ELSE "left")
    ELSE (IF deltaY > 0 THEN "down" ELSE "up")

SwipeDuration(ts, currentTime) == currentTime - ts.startTime

SwipeVelocity(distance, duration) == DivNat(distance, duration)

HandleSwipeEvent(ts, deltaX, deltaY, distance, currentTime) ==
    Gesture("swipe",
            [direction |-> SwipeDirection(deltaX, deltaY),
             deltaX |-> deltaX,
             deltaY |-> deltaY,
             distance |-> distance,
             angle |-> Atan2(deltaY, deltaX),
             velocity |-> SwipeVelocity(distance,
                                        SwipeDuration(ts, currentTime)),
             duration |-> SwipeDuration(ts, currentTime)])

(***************************************************************************)
(* handleTouchEnd: endTime = now; the handlers it calls read the clock     *)
(* again and get now + lag                                                 *)
(***************************************************************************)
EndDeltaX(ts) == ts.currentX - ts.startX
EndDeltaY(ts) == ts.currentY - ts.startY
EndDistance(ts) == Hypot(EndDeltaX(ts), EndDeltaY(ts))
EndDuration(ts, endTime) == endTime - ts.startTime

\* as IsTapEnd, with the swipe rule tried first
IsTapEndAfterSwipe(ts, cfg, endTime) ==
    /\ LessThan(EndDistance(ts), cfg.TAP_THRESHOLD)
    /\ EndDuration(ts, endTime) < TAP_MAX_DURATION
    /\ ~(/\ AtLeast(EndDistance(ts), cfg.SWIPE_THRESHOLD)
         /\ EndDuration(ts, endTime) < SWIPE_MAX_DURATION)

\* as IsTapEnd, with the squared distance compared to the threshold
IsTapEndNoSqrt(ts, cfg, endTime) ==
    /\ EndDeltaX(ts) * EndDeltaX(ts) + EndDeltaY(ts) * EndDeltaY(ts)
          < cfg.TAP_THRESHOLD
    /\ EndDuration(ts, endTime) < TAP_MAX_DURATION

IsTapEnd(ts, cfg, endTime) ==
    /\ LessThan(EndDistance(ts), cfg.TAP_THRESHOLD)
    /\ EndDuration(ts, endTime) < TAP_MAX_DURATION

\* as IsSwipeEnd, without the distance test
IsSwipeEndAnyDistance(ts, cfg, endTime) ==
    /\ ~IsTapEnd(ts, cfg, endTime)
    /\ EndDuration(ts, endTime) < SWIPE_MAX_DURATION

IsSwipeEnd(ts, cfg, endTime) ==
    /\ ~IsTapEnd(ts, cfg, endTime)
    /\ AtLeast(EndDistance(ts), cfg.SWIPE_THRESHOLD)
    /\ EndDuration(ts, endTime) < SWIPE_MAX_DURATION

HandleTouchEnd(lag) ==
    /\ lastOp' = "end"
    /\ UNCHANGED scriptVars
    /\ now + lag <= MaxTime
    /\ IF ~touchState.isTouching
       THEN /\ lag = 0
            /\ emitted' = <<>>
            /\ UNCHANGED <<touchState, timers, now, tapAt, closed, tapKind>>
       ELSE /\ closed' = TRUE
            /\ timers' = IF touchState.longPressTimer # Null
                         THEN ClearTimeout(timers, touchState.longPressTimer)
                         ELSE timers
            /\ IF IsTapEnd(touchState, config, now)
               THEN /\ emitted' = <<HandleTapEvent(touchState,
                                        EndDuration(touchState, now),
                                        now + lag)>>
                    /\ touchState' =
                         [touchState EXCEPT
                            !.longPressTimer = Null,
                            !.lastTapTime =
                                HandleTapLastTapTime(touchState, now + lag),
                            !.isTouching = FALSE,
                            !.touchCount = 0]
                    /\ now' = now + lag
                    /\ tapAt' = IF IsDoubleTap(touchState, now + lag)
                                THEN NoTap ELSE now + lag
                    /\ tapKind' = IF IsDoubleTap(touchState, now + lag)
                                  THEN "doubletap" ELSE "tap"
               ELSE IF IsSwipeEnd(touchState, config, now)
               THEN /\ emitted' = <<HandleSwipeEvent(touchState,
                                        EndDeltaX(touchState),
                                        EndDeltaY(touchState),
                                        EndDistance(touchState),
                                        now + lag)>>
                    /\ touchState' = [touchState EXCEPT
                                        !.longPressTimer = Null,
                                        !.isTouching = FALSE,
                                        !.touchCount = 0]
                    /\ now' = now + lag
                    /\ UNCHANGED <<tapAt, tapKind>>
               ELSE /\ lag = 0
                    /\ emitted' = <<>>
                    /\ touchState' = [touchState EXCEPT
                                        !.longPressTimer = Null,
                                        !.isTouching = FALSE,
                                        !.touchCount = 0]
                    /\ UNCHANGED <<now, tapAt, tapKind>>
    /\ touches' = <<>>
    /\ UNCHANGED <<gestureState, config, moved, longPressed>>

(***************************************************************************)
(* handleTouchCancel                                                       *)
(***************************************************************************)
\* as HandleTouchCancel, with the timer cleared but its id kept
HandleTouchCancelKeepsTimerId ==
    /\ lastOp' = "cancel"
    /\ UNCHANGED scriptVars
    /\ timers' = IF touchState.longPressTimer # Null
                 THEN ClearTimeout(timers, touchState.longPressTimer)
                 ELSE timers
    /\ touchState' = [touchState EXCEPT !.isTouching = FALSE,
                                        !.touchCount = 0]
    /\ emitted' = <<>>
    /\ touches' = <<>>
    /\ closed' = (closed \/ touchState.isTouching)
    /\ UNCHANGED <<gestureState, config, now, moved, longPressed, tapAt,
                   tapKind>>

\* as HandleTouchCancel, with the contact count kept
HandleTouchCancelKeepsCount ==
    /\ lastOp' = "cancel"
    /\ UNCHANGED scriptVars
    /\ timers' = IF touchState.longPressTimer # Null
                 THEN ClearTimeout(timers, touchState.longPressTimer)
                 ELSE timers
    /\ touchState' = [touchState EXCEPT !.longPressTimer = Null,
                                        !.isTouching = FALSE]
    /\ emitted' = <<>>
    /\ touches' = <<>>
    /\ closed' = (closed \/ touchState.isTouching)
    /\ UNCHANGED <<gestureState, config, now, moved, longPressed, tapAt,
                   tapKind>>

\* as HandleTouchCancel, with the time of the last tap forgotten
HandleTouchCancelClearsLastTap ==
    /\ lastOp' = "cancel"
    /\ UNCHANGED scriptVars
    /\ timers' = IF touchState.longPressTimer # Null
                 THEN ClearTimeout(timers, touchState.longPressTimer)
                 ELSE timers
    /\ touchState' = [touchState EXCEPT !.longPressTimer = Null,
                                        !.isTouching = FALSE,
                                        !.touchCount = 0,
                                        !.lastTapTime = 0]
    /\ emitted' = <<>>
    /\ touches' = <<>>
    /\ closed' = (closed \/ touchState.isTouching)
    /\ UNCHANGED <<gestureState, config, now, moved, longPressed, tapAt,
                   tapKind>>

HandleTouchCancel ==
    /\ lastOp' = "cancel"
    /\ UNCHANGED scriptVars
    /\ timers' = IF touchState.longPressTimer # Null
                 THEN ClearTimeout(timers, touchState.longPressTimer)
                 ELSE timers
    /\ touchState' = [touchState EXCEPT !.longPressTimer = Null,
                                        !.isTouching = FALSE,
                                        !.touchCount = 0]
    /\ emitted' = <<>>
    /\ touches' = <<>>
    /\ closed' = (closed \/ touchState.isTouching)
    /\ UNCHANGED <<gestureState, config, now, moved, longPressed, tapAt,
                   tapKind>>

(***************************************************************************)
(* triggerLongPress: the callback of timer id, run by the host once the    *)
(* timer's deadline has been reached                                       *)
(***************************************************************************)
\* as LongPressEvent, at the start position
LongPressEventAtStart(ts, cfg) ==
    Gesture("longpress", [x |-> ts.startX, y |-> ts.startY,
                          duration |-> cfg.LONG_PRESS_DURATION])

LongPressEvent(ts, cfg) ==
    Gesture("longpress", [x |-> ts.currentX, y |-> ts.currentY,
                          duration |-> cfg.LONG_PRESS_DURATION])

TriggerLongPress(id) ==
    /\ id \in DOMAIN timers
    /\ timers[id] <= now
    /\ lastOp' = "longpress"
    /\ UNCHANGED scriptVars
    /\ emitted' = <<LongPressEvent(touchState, config)>>
    /\ timers' = ClearTimeout(timers, id)
    /\ longPressed' = TRUE
    /\ touches' = <<>>
    /\ UNCHANGED <<touchState, gestureState, config, now, moved, tapAt,
                   closed, tapKind>>

\* the host runs the callback of some timer that is due
LongPressTimerFires == \E id \in DOMAIN timers : TriggerLongPress(id)

(***************************************************************************)
(* reset                                                                   *)
(***************************************************************************)
Reset ==
    /\ lastOp' = "reset"
    /\ UNCHANGED scriptVars
    /\ touchState' = InitTouchState
    /\ gestureState' = InitGestureState
    /\ emitted' = <<>>
    /\ tapAt' = NoTap
    /\ touches' = <<>>
    /\ closed' = FALSE
    /\ tapKind' = "none"
    /\ UNCHANGED <<config, timers, now, moved, longPressed>>

(***************************************************************************)
(* updateConfig                                                            *)
(***************************************************************************)
UpdateConfig(newConfig) ==
    /\ config' = ObjectAssign(config, newConfig)
    /\ config' # config
    /\ lastOp' = "config"
    /\ UNCHANGED scriptVars
    /\ emitted' = <<>>
    /\ touches' = <<>>
    /\ UNCHANGED <<touchState, gestureState, timers, now, moved, longPressed,
                   tapAt, closed, tapKind>>

(***************************************************************************)
(* The clock: a step of d moves it to the next multiple of d, and a timer   *)
(* fires at its deadline (the clock does not move past the deadline of a   *)
(* pending timer).                                                         *)
(***************************************************************************)
Due == {timers[i] : i \in DOMAIN timers}

NextGrid(d) == (now \div d + 1) * d

NextTime(d) ==
    IF \E t \in Due : t < NextGrid(d)
    THEN CHOOSE t \in Due : \A u \in Due : t <= u
    ELSE NextGrid(d)

Tick(d) ==
    /\ \A t \in Due : t > now
    /\ NextTime(d) <= MaxTime
    /\ now' = NextTime(d)
    /\ lastOp' = "tick"
    /\ UNCHANGED scriptVars
    /\ emitted' = <<>>
    /\ touches' = <<>>
    /\ UNCHANGED <<touchState, gestureState, config, timers, moved,
                   longPressed, tapAt, closed, tapKind>>

(***************************************************************************)
(* GameLoop (game-utils.js).  requestAnimationFrame hands out an id no      *)
(* pending request has; the callback of a request runs in a later frame,   *)
(* with the clock as its timestamp.  Every callback is the closure loop of *)
(* some call of start; the closures differ in nothing.                     *)
(***************************************************************************)
FreshFrameId(fs) ==
    CHOOSE i \in 1..(MaxFrames + 1) :
        i \notin DOMAIN fs /\ \A j \in 1..(i - 1) : j \in DOMAIN fs

\* cancelAnimationFrame(id)
CancelAnimationFrame(fs, id) == [i \in DOMAIN fs \ {id} |-> fs[i]]

GameLoopInit(speed) ==
    /\ gameLoop' = [gameLoop EXCEPT !.speed = speed, !.lastTime = 0,
                                    !.accumulatedTime = 0]
    /\ UNCHANGED <<frames, errorCache, logged, handlerVars, now>>

GameLoopStart ==
    /\ IF gameLoop.isRunning
       THEN UNCHANGED <<gameLoop, frames>>
       ELSE /\ Cardinality(DOMAIN frames) < MaxFrames
            /\ gameLoop' = [gameLoop EXCEPT !.isRunning = TRUE,
                                            !.lastTime = 0,
                                            !.accumulatedTime = 0,
                                            !.loopId = FreshFrameId(frames)]
            /\ frames' = frames @@ (FreshFrameId(frames) :> now)
    /\ UNCHANGED <<errorCache, logged, handlerVars, now>>

GameLoopStop ==
    /\ gameLoop' = [gameLoop EXCEPT !.isRunning = FALSE, !.loopId = Null]
    /\ frames' = IF gameLoop.loopId # Null
                 THEN CancelAnimationFrame(frames, gameLoop.loopId)
                 ELSE frames
    /\ UNCHANGED <<errorCache, logged, handlerVars, now>>

GameLoopPause ==
    /\ gameLoop' = [gameLoop EXCEPT !.isRunning = FALSE]
    /\ UNCHANGED <<frames, errorCache, logged, handlerVars, now>>

GameLoopResume ==
    IF gameLoop.loopId = Null
    THEN GameLoopStart
    ELSE /\ gameLoop' = [gameLoop EXCEPT !.isRunning = TRUE]
         /\ UNCHANGED <<frames, errorCache, logged, handlerVars, now>>

GameLoopSetSpeed(newSpeed) ==
    /\ gameLoop' = [gameLoop EXCEPT !.speed = newSpeed]
    /\ UNCHANGED <<frames, errorCache, logged, handlerVars, now>>

\* the accumulated time after the while loop has called updateCallback once
\* for every whole speed in it; no number is >= undefined
AfterUpdates(accumulatedTime, speed) ==
    IF speed = Undefined THEN accumulatedTime ELSE accumulatedTime % speed

\* loop(timestamp), the callback of request id, with timestamp = now
GameLoopFrame(id) ==
    /\ id \in DOMAIN frames
    /\ frames[id] < now
    /\ IF ~gameLoop.isRunning
       THEN /\ gameLoop' = [gameLoop EXCEPT !.loopId = Null]
            /\ frames' = CancelAnimationFrame(frames, id)
       ELSE LET lastTime == IF gameLoop.lastTime = 0 THEN now
                            ELSE gameLoop.lastTime
                deltaTime == now - lastTime
                rest == CancelAnimationFrame(frames, id)
            IN  /\ gameLoop' =
                     [gameLoop EXCEPT
                        !.lastTime = now,
                        !.accumulatedTime =
                            AfterUpdates(gameLoop.accumulatedTime + deltaTime,
                                         gameLoop.speed),
                        !.loopId = FreshFrameId(rest)]
                /\ frames' = rest @@ (FreshFrameId(rest) :> now)
    /\ UNCHANGED <<errorCache, logged, handlerVars, now>>

\* the host runs the callback of some pending request
GameLoopFrameRuns == \E id \in DOMAIN frames : GameLoopFrame(id)

NextGameLoop ==
    \/ \E speed \in LoopSpeeds : GameLoopInit(speed)
    \/ GameLoopStart
    \/ GameLoopStop
    \/ GameLoopPause
    \/ GameLoopResume
    \/ \E newSpeed \in LoopSpeeds : GameLoopSetSpeed(newSpeed)
    \/ GameLoopFrameRuns
    \/ \E d \in ClockSteps : Tick(d)

SpecGameLoop == Init /\ [][NextGameLoop]_vars

(***************************************************************************)
(* ErrorLogger (error-handler.js).  The message of the k-th call of log is *)
(* k; the error argument is left out (null).                               *)
(***************************************************************************)
\* as LimitCache, with the newest entry dropped
LimitCacheDropsNewest(cache) ==
    IF Len(cache) > maxErrorCache
    THEN SubSeq(cache, 1, Len(cache) - 1)
    ELSE cache

\* if (errorCache.length > maxErrorCache) errorCache.shift()
LimitCache(cache) ==
    IF Len(cache) > maxErrorCache THEN Tail(cache) ELSE cache

ErrorEntry(level, message) ==
    [timestamp |-> now, level |-> level, message |-> message, error |-> Null]

ErrorLoggerLog(level) ==
    /\ logged < MaxLogs
    /\ logged' = logged + 1
    /\ errorCache' = LimitCache(Append(errorCache,
                                       ErrorEntry(level, logged + 1)))
    /\ UNCHANGED <<gameLoop, frames, handlerVars, now>>

ErrorLoggerClearErrors ==
    /\ errorCache' = <<>>
    /\ UNCHANGED <<gameLoop, frames, logged, handlerVars, now>>

NextErrorLogger ==
    \/ \E level \in LogLevels : ErrorLoggerLog(level)
    \/ ErrorLoggerClearErrors

SpecErrorLogger == Init /\ [][NextErrorLogger]_vars

OffsetsOf(n) == IF n = 2 THEN Offsets ELSE {<<0, 0>>}

\* the steps of the handler with contact-starts at the points of starts, moves
\* to the points of points, and contact counts of contacts
NextOver(starts, points, contacts) ==
    \/ \E p \in starts, n \in contacts : \E o \in OffsetsOf(n) :
          HandleTouchStart(p, n, o)
    \/ \E p \in points, n \in contacts : \E o \in OffsetsOf(n) :
          HandleTouchMove(p, n, o)
    \/ \E lag \in ClockLags : HandleTouchEnd(lag)
    \/ HandleTouchCancel
    \/ LongPressTimerFires
    \/ Reset
    \/ \E d \in ClockSteps : Tick(d)

\* one or two contacts, few positions
Next == NextOver(StartPoints, Points, {1, 2})

Spec == Init /\ [][Next]_vars

\* one contact, displacements in every direction and range
NextSwipe == NextOver(StartPoints, SwipePoints, {1})

SpecSwipe == Init /\ [][NextSwipe]_vars

\* one contact, the configuration set by init and changed by updateConfig
NextConfig ==
    \/ NextOver(StartPoints, ConfigPoints, {1})
    \/ \E newConfig \in ConfigOptions : UpdateConfig(newConfig)

SpecConfig == InitConfig /\ [][NextConfig]_vars

\* one or two contacts at one position, the two-contact features as init
\* has set them
NextFlags == NextOver(StartPoints, StartPoints, {1, 2})

SpecFlags == InitFlags /\ [][NextFlags]_vars

(***************************************************************************)
(* Properties.  In a step, the unprimed variables are the state in which   *)
(* the handler is entered (now is the value its first Date.now() returns)  *)
(* and the primed ones the state it leaves.                                *)
(***************************************************************************)
\* the step is a contact-end on an active session
EndsSession == lastOp' = "end" /\ touchState.isTouching

\* squared distance from the start position to the last known position
DistSq == (touchState.currentX - touchState.startX)
             * (touchState.currentX - touchState.startX)
          + (touchState.currentY - touchState.startY)
             * (touchState.currentY - touchState.startY)

\* end time minus start time
Duration == now - touchState.startTime

QualifiesAsTap == DistSq < 10 * 10 /\ Duration < 300
QualifiesAsSwipe == DistSq >= 30 * 30 /\ Duration < 500

Emits(types) == Len(emitted) = 1 /\ emitted[1].type \in types

\* C1: a contact-end on an active session with distance < 10px and duration
\* < 300ms emits exactly one gesture, and it is a tap or a doubletap.
C1_QualifyingTapEmitsOne ==
    [][(EndsSession /\ QualifiesAsTap) => Emits({"tap", "doubletap"})']_vars

\* C1 witness: a contact-end 200ms after the start, 5px away, emitted a tap.
C1_Witness ==
    /\ lastOp = "end"
    /\ emitted = <<Gesture("tap", [x |-> 5, y |-> 0, duration |-> 200])>>

\* C2: a qualifying tap is a doubletap iff a tap was emitted less than 300ms
\* before it (and not yet answered by a doubletap), otherwise it is a tap;
\* so the first qualifying tap of a fresh classifier is a tap.
C2_DoubleTapIffRecentTap ==
    [][(EndsSession /\ QualifiesAsTap) =>
          /\ Emits({"tap", "doubletap"})'
          /\ emitted'[1].type = "doubletap"
                <=> (tapAt # NoTap /\ now' - tapAt < 300)]_vars

\* C3: a contact-end with distance >= 30px and duration < 500ms emits a
\* swipe whose direction is that of the larger absolute displacement.
C3_SwipeDirection ==
    [][(EndsSession /\ QualifiesAsSwipe) =>
          LET dx == touchState.currentX - touchState.startX
              dy == touchState.currentY - touchState.startY
              dir == emitted'[1].data.direction
          IN  /\ Emits({"swipe"})'
              /\ (Abs(dx) > Abs(dy) /\ dx > 0) => dir = "right"
              /\ (Abs(dx) > Abs(dy) /\ dx < 0) => dir = "left"
              /\ (Abs(dy) > Abs(dx) /\ dy > 0) => dir = "down"
              /\ (Abs(dy) > Abs(dx) /\ dy < 0) => dir = "up"]_vars

\* C3 witness: a swipe to the left with a smaller downward displacement.
C3_Witness ==
    /\ lastOp = "end"
    /\ Emits({"swipe"})
    /\ emitted[1].data.direction = "left"
    /\ emitted[1].data.deltaX = -40
    /\ emitted[1].data.deltaY = 5

\* C4: every emitted swipe carries the distance from the start position to
\* the last known position, the duration end time minus start time that was
\* tested against the limit, and velocity = distance / duration, a finite
\* number also when the duration is 0.
C4_SwipeFields ==
    [][(EndsSession /\ Emits({"swipe"})') =>
          LET g == emitted'[1].data
          IN  /\ g.distance = SqrtRatio(DistSq, 1)
              /\ g.duration = Duration
              /\ g.velocity = SqrtRatio(DistSq, Duration * Duration)
              /\ IsFinite(g.velocity)]_vars

\* C5: a longpress emitted in an active session in which nothing has moved
\* is the only one since the contact-start and comes 500ms after it, and
\* from then on no step before the contact-end emits another gesture.
C5_OneLongPressAtDeadline ==
    [][/\ (lastOp' = "longpress" /\ touchState.isTouching /\ ~moved)
            => (~longPressed /\ now = touchState.startTime + 500)
       /\ (touchState.isTouching /\ longPressed /\ ~moved /\ lastOp' # "end")
            => emitted' = <<>>]_vars

\* C6: a move on an active session leaves no long-press timer armed, so
\* once a move came before any longpress, no longpress is emitted until the
\* next contact-start, neither before nor after the contact-end.
C6_MoveDisarms ==
    [][/\ (lastOp' = "move" /\ touchState.isTouching)
            => (touchState'.longPressTimer = Null /\ DOMAIN timers' = {})
       /\ (moved /\ ~longPressed) => lastOp' # "longpress"]_vars

\* the step is a contact-start, or a move on an active session, with two
\* contacts
TwoContactStart == lastOp' = "start" /\ Len(touches') = 2
TwoContactMove == lastOp' = "move" /\ touchState.isTouching /\ Len(touches') = 2

\* the distance between the two contacts of a two-contact event
ContactDistance(t) == Hypot(t[2][1] - t[1][1], t[2][2] - t[1][2])

\* C7, as stated: every move with two contacts in an active session emits
\* a pinch with scale = current distance / reference distance.
C7_PinchScaleIsRatio ==
    [][TwoContactMove =>
          /\ Len(emitted') >= 1
          /\ emitted'[1].type = "pinch"
          /\ emitted'[1].data.scale
               = DivReal(ContactDistance(touches'),
                         gestureState.initialDistance)]_vars

\* C7, amended: the reference distance is the distance between the two
\* contacts of the latest two-contact start (only such a start and reset
\* change it); a move with two contacts in an active session emits a pinch
\* with scale = current distance / reference distance when the reference
\* distance is not 0, and with the scale unchanged when it is 0.
C7_PinchScale ==
    [][/\ TwoContactStart =>
             gestureState'.initialDistance = ContactDistance(touches')
       /\ (~TwoContactStart /\ lastOp' # "reset") =>
             gestureState'.initialDistance = gestureState.initialDistance
       /\ TwoContactMove =>
             /\ Len(emitted') >= 1
             /\ emitted'[1].type = "pinch"
             /\ emitted'[1].data.scale
                  = IF gestureState.initialDistance # Real(0)
                    THEN DivReal(ContactDistance(touches'),
                                 gestureState.initialDistance)
                    ELSE gestureState.scale]_vars

\* C7 witness: contacts 100px apart at the start and 150px apart at the
\* move: the pinch carries scale 1.5 (the square root of 9/4).
C7_Witness ==
    /\ lastOp = "move"
    /\ Len(touches) = 2
    /\ ContactDistance(touches) = Real(150)
    /\ gestureState.initialDistance = Real(100)
    /\ Len(emitted) >= 1
    /\ emitted[1].type = "pinch"
    /\ emitted[1].data.scale = [num |-> 9, den |-> 4]

\* C8: in every reachable state at most one long-press timer is pending.
C8_AtMostOneTimer == Cardinality(DOMAIN timers) <= 1

\* C9: a contact-cancel emits nothing and leaves the session inactive and
\* no long-press timer pending, and the step after it emits nothing.
C9_CancelSilences ==
    [][/\ lastOp' = "cancel" =>
             /\ emitted' = <<>>
             /\ ~touchState'.isTouching
             /\ DOMAIN timers' = {}
       /\ (lastOp = "cancel" /\ lastOp' # "start") => emitted' = <<>>]_vars

\* C10: a contact-end on an active session leaves the session inactive,
\* the contact count 0 and no long-press timer pending, whatever it
\* emitted; a move or end on an inactive session changes nothing.
C10_EndEndsSession ==
    [][/\ EndsSession =>
             /\ ~touchState'.isTouching
             /\ touchState'.touchCount = 0
             /\ touchState'.longPressTimer = Null
             /\ DOMAIN timers' = {}
       /\ (~touchState.isTouching /\ lastOp' \in {"move", "end"}) =>
             /\ touchState' = touchState
             /\ gestureState' = gestureState
             /\ timers' = timers
             /\ emitted' = <<>>]_vars

\* C11: a contact-end on an active session that matches neither the tap
\* rule (distance < 10px and duration < 300ms) nor the swipe rule (distance
\* >= 30px and duration < 500ms) emits nothing.
C11_NoMatchIsSilent ==
    [][(EndsSession /\ ~QualifiesAsTap /\ ~QualifiesAsSwipe)
          => emitted' = <<>>]_vars

\* C11 witness: a session closed by a contact-end 20px from its start
\* position, 200ms after its start, that emitted nothing.
C11_Witness ==
    /\ lastOp = "end"
    /\ closed
    /\ emitted = <<>>
    /\ touchState.currentX - touchState.startX = 20
    /\ touchState.currentY - touchState.startY = 0
    /\ now - touchState.startTime = 200

\* the tap rule and the swipe rule with the configured thresholds
TapRule ==
    DistSq < config.TAP_THRESHOLD * config.TAP_THRESHOLD /\ Duration < 300
SwipeRule ==
    DistSq >= config.SWIPE_THRESHOLD * config.SWIPE_THRESHOLD /\ Duration < 500

\* C12: a contact-end on an active session emits at most one gesture, a
\* tap, doubletap or swipe; whatever the configured thresholds, it is a tap
\* or doubletap whenever the tap rule matches, and a swipe only when the tap
\* rule does not match and the swipe rule does.
C12_TapRuleFirst ==
    [][EndsSession =>
          /\ Len(emitted') <= 1
          /\ TapRule => Emits({"tap", "doubletap"})'
          /\ (~TapRule /\ SwipeRule) => Emits({"swipe"})'
          /\ (~TapRule /\ ~SwipeRule) => emitted' = <<>>]_vars

\* C12 witness: with the tap threshold (50) configured above the swipe
\* threshold (30), a contact-end 40px from the start position, which
\* matches both rules, emitted a tap or doubletap.
C12_Witness ==
    /\ config.TAP_THRESHOLD = 50
    /\ config.SWIPE_THRESHOLD = 30
    /\ lastOp = "end"
    /\ Emits({"tap", "doubletap"})
    /\ touchState.currentX - touchState.startX = 40
    /\ emitted[1].data.duration < 300

\* C13: a contact-end that emits a doubletap leaves lastTapTime 0 and one
\* that emits a tap leaves it the current time, and the tap or doubletap
\* that follows a doubletap is a tap (never two doubletaps in a row).
C13_NoTwoDoubleTaps ==
    [][(EndsSession /\ Emits({"tap", "doubletap"})') =>
          /\ emitted'[1].type = "doubletap" => touchState'.lastTapTime = 0
          /\ emitted'[1].type = "tap" => touchState'.lastTapTime = now'
          /\ tapKind = "doubletap" => emitted'[1].type = "tap"]_vars

\* C14: once a longpress was emitted since the latest contact-start of an
\* active session, the contact-end of the session emits nothing.
C14_NoGestureAfterLongPress ==
    [][(EndsSession /\ longPressed) => emitted' = <<>>]_vars

\* the configured double-tap window, 300 when none is configured
ConfiguredDoubleTapWindow ==
    IF "DOUBLE_TAP_WINDOW" \in DOMAIN config
    THEN config.DOUBLE_TAP_WINDOW
    ELSE 300

\* C15: classification uses the configured values: a contact-end is
\* classified by the tap rule and the swipe rule with the configured
\* thresholds, a contact-start arms the long-press timer for the configured
\* duration after it, and a qualifying tap that follows a tap is a doubletap
\* iff that tap was less than the configured double-tap window earlier.
C15_OptionsControlThresholds ==
    [][/\ EndsSession =>
             /\ TapRule => Emits({"tap", "doubletap"})'
             /\ (~TapRule /\ SwipeRule) => Emits({"swipe"})'
             /\ (~TapRule /\ ~SwipeRule) => emitted' = <<>>
       /\ lastOp' = "start" =>
             /\ touchState'.longPressTimer \in DOMAIN timers'
             /\ timers'[touchState'.longPressTimer]
                  = now + config.LONG_PRESS_DURATION
       /\ (EndsSession /\ TapRule /\ tapAt # NoTap) =>
             (emitted'[1].type = "doubletap"
                <=> now' - tapAt < ConfiguredDoubleTapWindow)]_vars

\* C16: the two-contact gesture state takes its reference values at a
\* contact-start with two contacts, and is back to its initial values (scale
\* 1, rotation 0, reference distance 0) after the contact-end or
\* contact-cancel that takes the contact count of a session to 0.
C16_GestureStateIffTwoContacts ==
    [][/\ TwoContactStart =>
             /\ gestureState'.initialDistance = ContactDistance(touches')
             /\ gestureState'.scale = Real(1)
             /\ gestureState'.rotation = 0
       /\ (lastOp' \in {"end", "cancel"} /\ touchState.isTouching) =>
             /\ touchState'.touchCount < 2
             /\ gestureState'.scale = Real(1)
             /\ gestureState'.rotation = 0
             /\ gestureState'.initialDistance = Real(0)]_vars

\* C17, as stated: a long-press timer is armed iff a session is active and
\* no movement beyond the tap threshold (10px) has occurred since arming.
C17_TimerArmedIff ==
    (DOMAIN timers # {})
        <=> (touchState.isTouching /\ ~(moved /\ DistSq > 10 * 10))

\* C17, amended: the session holds the id of a long-press timer iff it is
\* active and no move of any size was processed since its latest
\* contact-start, and that timer is armed as long as no longpress has been
\* emitted since that contact-start.
C17_TimerIdIff ==
    /\ (touchState.longPressTimer # Null)
          <=> (touchState.isTouching /\ ~moved)
    /\ (touchState.isTouching /\ ~moved /\ ~longPressed)
          => touchState.longPressTimer \in DOMAIN timers

\* C17 witness: a move of 5px, less than the tap threshold, has disarmed
\* the long-press timer of an active session.
C17_Witness ==
    /\ lastOp = "move"
    /\ touchState.isTouching
    /\ DistSq = 5 * 5
    /\ ~longPressed
    /\ touchState.longPressTimer = Null
    /\ DOMAIN timers = {}

\* C18: no longpress is emitted after the contact-end or contact-cancel
\* that closed a session and before the next contact-start.
C18_NoLongPressAfterClose ==
    [][closed => lastOp' # "longpress"]_vars

\* C19: a contact-start on an active session leaves the recorded start
\* position and start time of the session unchanged.
C19_SecondStartKeepsStart ==
    [][(lastOp' = "start" /\ touchState.isTouching) =>
          /\ touchState'.startX = touchState.startX
          /\ touchState'.startY = touchState.startY
          /\ touchState'.startTime = touchState.startTime]_vars

\* C20: lastTapTime changes only in a contact-end on an active session
\* that emits a tap or a doubletap, and in reset; contact-start, move,
\* cancel, the long-press callback and every other contact-end keep it.
C20_LastTapTimeCarriedOver ==
    [][touchState'.lastTapTime # touchState.lastTapTime =>
          \/ lastOp' = "reset"
          \/ EndsSession /\ Emits({"tap", "doubletap"})']_vars

\* C20 witness: a session started after a tap at 300 was cancelled, and
\* lastTapTime is still 300.
C20_Witness ==
    /\ lastOp = "cancel"
    /\ closed
    /\ touchState.startTime > 300
    /\ touchState.lastTapTime = 300
    /\ tapAt = 300

\* C21: a move with two contacts in an active session whose reference
\* distance is 0 leaves the scale as it was and emits the pinch with that
\* scale, a finite number.
C21_ZeroReferenceKeepsScale ==
    [][(TwoContactMove /\ gestureState.initialDistance = Real(0)) =>
          /\ gestureState'.scale = gestureState.scale
          /\ Len(emitted') >= 1
          /\ emitted'[1].type = "pinch"
          /\ emitted'[1].data.scale = gestureState.scale
          /\ IsFinite(emitted'[1].data.scale)]_vars

\* C21 witness: both contacts started at the same point and are 150px
\* apart at the move: the pinch carries the scale 1 the start had set.
C21_Witness ==
    /\ lastOp = "move"
    /\ Len(touches) = 2
    /\ ContactDistance(touches) = Real(150)
    /\ touchState.touchCount = 2
    /\ gestureState.initialDistance = Real(0)
    /\ Len(emitted) >= 1
    /\ emitted[1].type = "pinch"
    /\ emitted[1].data.scale = Real(1)

\* the angle from the first to the second contact of a two-contact event,
\* and the midpoint of the two contacts
ContactAngle(t) == Atan2(t[2][2] - t[1][2], t[2][1] - t[1][1])
ContactCenter(t) == <<(t[1][1] + t[2][1]) \div 2, (t[1][2] + t[2][2]) \div 2>>

\* the pinch and the rotate a two-contact move is to emit
PinchOf(t, scale) ==
    Gesture("pinch", [scale |-> scale, centerX |-> ContactCenter(t)[1],
                      centerY |-> ContactCenter(t)[2]])
RotateOf(t, referenceAngle) ==
    Gesture("rotate", [rotation |-> Degrees(ContactAngle(t))
                                      - Degrees(referenceAngle),
                       centerX |-> ContactCenter(t)[1],
                       centerY |-> ContactCenter(t)[2]])

C23_LongPressKeepsSession ==
    [][lastOp' = "longpress" =>
          /\ emitted' = <<Gesture("longpress",
                                  [x |-> touchState.currentX,
                                   y |-> touchState.currentY,
                                   duration |-> config.LONG_PRESS_DURATION])>>
          /\ touchState' = touchState
          /\ gestureState' = gestureState]_vars

\* C23 witness: with the long-press duration configured as 200, a longpress
\* was emitted at the current position (5, 0) of a session that started at
\* (0, 0) and is still active.
C23_Witness ==
    /\ lastOp = "longpress"
    /\ touchState.isTouching
    /\ touchState.startX = 0
    /\ Emits({"longpress"})
    /\ emitted[1].data = [x |-> 5, y |-> 0, duration |-> 200]

\* C24: a move, an end or a cancel that arrives while no session is active
\* emits nothing and changes nothing of the touch state, the gesture state
\* and the pending timers.
C24_IgnoredWhenIdle ==
    [][(~touchState.isTouching /\ lastOp' \in {"move", "end", "cancel"}) =>
          /\ emitted' = <<>>
          /\ touchState' = touchState
          /\ gestureState' = gestureState
          /\ timers' = timers]_vars

\* C24 witness: a cancel arrived after a reset, with no session started
\* since, while the timer of the session the reset wiped is still pending.
C24_Witness ==
    /\ lastOp = "cancel"
    /\ ~closed
    /\ ~touchState.isTouching
    /\ DOMAIN timers # {}

\* C25: the direction of an emitted swipe is one of left, right, up, down;
\* it is vertical when |deltaX| = |deltaY|, down if deltaY > 0 and up
\* otherwise, and horizontal only when |deltaX| > |deltaY|.
C25_DiagonalIsVertical ==
    [][(EndsSession /\ Emits({"swipe"})') =>
          LET dx == touchState.currentX - touchState.startX
              dy == touchState.currentY - touchState.startY
              dir == emitted'[1].data.direction
          IN  /\ dir \in {"left", "right", "up", "down"}
              /\ Abs(dx) = Abs(dy) => dir = (IF dy > 0 THEN "down" ELSE "up")
              /\ dir \in {"left", "right"} => Abs(dx) > Abs(dy)]_vars

\* C25 witness: a swipe by (-40, -40), exactly diagonal, reported as up.
C25_Witness ==
    /\ lastOp = "end"
    /\ Emits({"swipe"})
    /\ emitted[1].data.deltaX = -40
    /\ emitted[1].data.deltaY = -40
    /\ emitted[1].data.direction = "up"

\* C26: a contact-end classifies the displacement from the start position
\* to the position of the last move; without a move since the latest
\* contact-start the distance is 0, and a swipe is emitted only after a move.
C26_SwipeNeedsMove ==
    [][EndsSession =>
          /\ ~moved => DistSq = 0
          /\ Emits({"swipe"})' =>
                /\ moved
                /\ emitted'[1].data.deltaX
                     = touchState.currentX - touchState.startX
                /\ emitted'[1].data.deltaY
                     = touchState.currentY - touchState.startY]_vars

\* C26 witness: a session without a move was ended 400ms after its start,
\* too late for a tap, and nothing was emitted.
C26_Witness ==
    /\ lastOp = "end"
    /\ closed
    /\ ~moved
    /\ now - touchState.startTime = 400
    /\ tapKind = "none"
    /\ emitted = <<>>

\* C27: in every state the session is active iff the contact count is at
\* least 1, and only contact-start, contact-end, contact-cancel and reset
\* change either of them.
C27_ActiveIffContacts ==
    [][/\ touchState.isTouching <=> touchState.touchCount >= 1
       /\ touchState'.isTouching <=> touchState'.touchCount >= 1
       /\ lastOp' \notin {"start", "end", "cancel", "reset"} =>
             /\ touchState'.isTouching = touchState.isTouching
             /\ touchState'.touchCount = touchState.touchCount]_vars

\* C27 witness: a session of two contacts is active during a move.
C27_Witness ==
    /\ lastOp = "move"
    /\ touchState.isTouching
    /\ touchState.touchCount = 2

\* C28: reset leaves the touch state and the gesture state at their initial
\* values and no timer pending, and no gesture is emitted after it until the
\* next contact-start.
C28_ResetIsIdle ==
    [][/\ lastOp' = "reset" =>
             /\ touchState' = InitTouchState
             /\ gestureState' = InitGestureState
             /\ DOMAIN timers' = {}
       /\ (~touchState.isTouching /\ ~closed) => emitted' = <<>>]_vars

\* C29: in every state of the game loop at most one animation-frame
\* callback is scheduled.
C29_OneFrameChain == Cardinality(DOMAIN frames) <= 1

\* C30: the error cache never holds more than 100 entries, and a call of
\* log leaves in it the new entry last and before it the entries it held,
\* in their order, without the oldest one if they were 100.
C30_CacheBounded ==
    [][/\ Len(errorCache') <= 100
       /\ logged' = logged + 1 =>
             LET pushed == Len(errorCache) + 1
                 kept == Len(errorCache')
             IN  /\ kept = (IF pushed > 100 THEN 100 ELSE pushed)
                 /\ errorCache'[kept].message = logged'
                 /\ \A i \in 1..(kept - 1) :
                       errorCache'[i] = errorCache[i + (pushed - kept)]]_vars

\* C30 witness: after 102 calls of log the cache holds the 100 entries of
\* the calls 3 to 102.
C30_Witness ==
    /\ logged = 102
    /\ Len(errorCache) = 100
    /\ errorCache[1].message = 3
    /\ errorCache[100].message = 102

====
